---- MODULE Spec2Model ----
(***************************************************************************)
(* Role&Roll dice pool: the face mapping, the scoring and the two reroll   *)
(* drivers of the repository.                                              *)
(*                                                                         *)
(*   custom-dice.mjs  rollRolenrollPool, the automatic driver: a while     *)
(*                    loop that rerolls every "R" die, capped at 100       *)
(*                    rounds.                                              *)
(*   rnr_test.mjs     rollRolenrollPool / _runInteractiveRoll, the         *)
(*                    interactive driver: after every round that shows an  *)
(*                    "R" a Dialog asks for "reroll" or "finish".          *)
(*                                                                         *)
(* A step of a driver is the code that runs between two awaits.  The       *)
(* random source (new Roll("1d6")).evaluate() is the environment: every    *)
(* value it returns is appended to tape.                                   *)
(***************************************************************************)
EXTENDS Integers, Sequences, FiniteSets, TLC

VARIABLES
    variant,      \* which script the host loaded: "auto", "interactive", "both", "score"
    args,         \* the argument object of the rollRolenrollPool call
    source,       \* the random source: "fair", or "stuck" on the reroll face
    tape,         \* the values the random source has returned, in call order
    \* ---- custom-dice.mjs, rollRolenrollPool
    aPc,          \* "idle", "awaitRoll" (line 103), "awaitChat" (line 147), "done"
    pending,      \* line 93 / 116
    next,         \* line 100
    aI,           \* position of the for-of loop of line 102 in pending (1-based)
    safety,       \* line 94
    allResults,   \* line 90
    roundLens,    \* history: the length of pending at every entry of the while body
    aPos,         \* how many random values this driver has consumed
    scoring,      \* line 119, <<>> until the loop has ended
    \* ---- rnr_test.mjs, rollRolenrollPool / _runInteractiveRoll
    rounds,       \* the rounds array handed down the _runInteractiveRoll chain
    frames,       \* the _rollOneRound activations awaiting a roll (line 114)
    dialogs,      \* the rendered reroll Dialogs still open (line 244)
    finals,       \* what every _finalizeAndSend call returned, in call order
    iReturn,      \* what the promise of the entry point resolved to
    prompts,      \* history: Dialogs rendered so far
    decisions,    \* history: button callbacks run so far, in order
    started,      \* history: _rollOneRound calls so far
    shown,        \* history: game.dice3d.showForRoll calls so far (line 118)
    \* ---- scoreFaces applied to a free list of faces
    sfFaces,
    sfScore,
    \* ---- the host and the pure functions called on free inputs
    dice3d,       \* whether Dice So Nice is installed (game.dice3d)
    notes,        \* the ui.notifications.warn calls so far, in order
    fnIn,         \* the arguments of a pure function
    fnOut,        \* what it returned, <<>> until it is called
    \* ---- two invocations of rollRolenrollPool in flight at once: the
    \* variables above are those of the invocation that runs
    pool,         \* which of the two invocations runs, 1 or 2
    ref,          \* the array it created for its results, 0 before its call
    heap,         \* the contents of the arrays created, as of the last switch
    parked        \* the variables of the invocation that is suspended

vars == <<variant, args, source, tape, aPc, pending, next, aI, safety, allResults,
          roundLens, aPos, scoring, rounds, frames, dialogs, finals, iReturn,
          prompts, decisions, started, shown, sfFaces, sfScore, dice3d, notes,
          fnIn, fnOut, pool, ref, heap, parked>>

autoVars == <<aPc, pending, next, aI, safety, allResults, roundLens, aPos, scoring>>
interVars == <<rounds, frames, dialogs, finals, iReturn, prompts, decisions, started,
               shown>>
scoreVars == <<sfFaces, sfScore>>
poolVars == <<pool, ref, heap, parked>>
sideVars == <<dice3d, notes, fnIn, fnOut, poolVars>>

----------------------------------------------------------------------------
(* Bounds of the model.                                                    *)

\* longest dice list a caller passes
MaxDice == 2
\* rounds a pool may take: the fair source shows no 6 in round MaxRounds,
\* and the interactive caller asks for no reroll after it (that driver has
\* no cap of its own)
MaxRounds == 3
\* the same for a pool of the 5 default dice
MaxDefaultRounds == 2
\* longest free list of faces handed to scoreFaces
MaxFaces == 4
\* the numbers handed to the coercions range over -MaxNumber..MaxNumber
MaxNumber == 7
\* most tokens in the "Special dice" text of the tray
MaxTokens == 3

----------------------------------------------------------------------------
(* JavaScript values that reach the numeric coercions.                     *)

Undef == [t |-> "undefined", n |-> 0]
NotNum == [t |-> "NaN", n |-> 0]
Num(k) == [t |-> "number", n |-> k]

Max(a, b) == IF a >= b THEN a ELSE b
Min(a, b) == IF a <= b THEN a ELSE b

\* Number(v ?? 0), NaN replaced by 0
ToNum(v) == IF v.t = "number" THEN v.n ELSE 0

clamp(v, min, max) == Max(min, Min(max, ToNum(v)))

\* x ?? d
OrElse(x, d) == IF x.t = "undefined" THEN d ELSE x

----------------------------------------------------------------------------
(* Die configurations and faces.                                           *)

Normal == [kind |-> "normal", plusCount |-> Undef, minusCount |-> Undef]
Adv(c) == [kind |-> "adv", plusCount |-> c, minusCount |-> Undef]
Neg(c) == [kind |-> "neg", plusCount |-> Undef, minusCount |-> c]

BaseFaces == <<"1", "", "", "", "", "R">>

\* the faces filled from side 5 downwards
FillFromSide5(faces, sym, count) ==
    [k \in 1..6 |-> IF k <= 5 /\ k >= 6 - count /\ k >= 2 THEN sym ELSE faces[k]]

\* faces[1 + i] = sym for 0 <= i < count
Fill(faces, sym, count) ==
    [k \in 1..6 |-> IF k >= 2 /\ k <= 1 + count /\ k <= 6 THEN sym ELSE faces[k]]

\* rnr_test.mjs
buildDieFaces(config) ==
    IF config.kind = "adv" THEN
        LET c0 == OrElse(config.plusCount, Num(1))
            c1 == IF c0.t = "number" /\ c0.n > 4 THEN Num(4) ELSE c0
        IN  Fill(BaseFaces, "+", clamp(c1, 1, 4))
    ELSE IF config.kind = "neg" THEN
        LET c0 == OrElse(config.minusCount, Num(1))
            c1 == IF c0.t = "number" /\ c0.n > 4 THEN Num(4) ELSE c0
        IN  Fill(BaseFaces, "-", clamp(c1, 1, 4))
    ELSE BaseFaces

\* the face one side further
faceForRollNextSide(config, value) == buildDieFaces(config)[Min(6, clamp(value, 1, 6) + 1)]

\* faces[clamp(value, 1, 6) - 1], the array counted from 0
faceForRoll(config, value) == buildDieFaces(config)[clamp(value, 1, 6)]

\* custom-dice.mjs
buildDieFacesCD(config) ==
    IF config.kind = "adv" THEN
        Fill(BaseFaces, "+", clamp(OrElse(config.plusCount, Num(1)), 1, 4))
    ELSE IF config.kind = "neg" THEN
        Fill(BaseFaces, "-", clamp(OrElse(config.minusCount, Num(1)), 1, 4))
    ELSE BaseFaces

faceForRollCD(config, value) == buildDieFacesCD(config)[clamp(value, 1, 6)]

----------------------------------------------------------------------------
(* scoreFaces: one pass over the faces, then the total.  The counters only *)
(* add up, so the pass over faces[lo..hi] is taken as the pass over its    *)
(* first half followed by the pass over its second half.                   *)

ZeroCount == [basePoints |-> 0, plusCount |-> 0, minusCount |-> 0, rerollCount |-> 0]

\* the loop body with "R" counted as a reroll only
CountFaceRerollNoPoint(acc, f) ==
    IF f = "1" THEN [acc EXCEPT !.basePoints = @ + 1]
    ELSE IF f = "R" THEN [acc EXCEPT !.rerollCount = @ + 1]
    ELSE IF f = "+" THEN [acc EXCEPT !.plusCount = @ + 1]
    ELSE IF f = "-" THEN [acc EXCEPT !.minusCount = @ + 1]
    ELSE acc

\* the body of the for loop, lines 83-92
CountFace(acc, f) ==
    IF f = "1" THEN [acc EXCEPT !.basePoints = @ + 1]
    ELSE IF f = "R" THEN [acc EXCEPT !.basePoints = @ + 1, !.rerollCount = @ + 1]
    ELSE IF f = "+" THEN [acc EXCEPT !.plusCount = @ + 1]
    ELSE IF f = "-" THEN [acc EXCEPT !.minusCount = @ + 1]
    ELSE acc

AddCounts(a, b) ==
    [basePoints |-> a.basePoints + b.basePoints,
     plusCount |-> a.plusCount + b.plusCount,
     minusCount |-> a.minusCount + b.minusCount,
     rerollCount |-> a.rerollCount + b.rerollCount]

RECURSIVE CountFaces(_, _, _)
CountFaces(faces, lo, hi) ==
    IF lo > hi THEN ZeroCount
    ELSE IF lo = hi THEN CountFace(ZeroCount, faces[lo])
    ELSE LET mid == (lo + hi) \div 2
         IN  AddCounts(CountFaces(faces, lo, mid), CountFaces(faces, mid + 1, hi))

\* the total without the test basePoints > 0
ScoreTotalTokensAlways(c) ==
    LET total == c.basePoints + c.plusCount - c.minusCount
    IN  IF total < 0 THEN 0 ELSE total

\* lines 95-99
ScoreTotal(c) ==
    IF c.basePoints > 0
    THEN LET total == c.basePoints + c.plusCount - c.minusCount
         IN  IF total < 0 THEN 0 ELSE total
    ELSE 0

scoreFaces(faces) ==
    LET c == CountFaces(faces, 1, Len(faces))
    IN  [basePoints |-> c.basePoints, plusCount |-> c.plusCount,
         minusCount |-> c.minusCount, rerollCount |-> c.rerollCount,
         total |-> ScoreTotal(c)]

----------------------------------------------------------------------------
(* Inputs.                                                                 *)

\* the cap of the while loop of custom-dice.mjs
SafetyCap == 100

\* the sides the fair source shows: 1 (Point), 2 (the first side an
\* advantage or negative die fills), 4 (Blank for the counts below),
\* 6 (Reroll); sides 3 and 5 give the faces 2 and 4 already give
DieValues == {1, 2, 4, 6}

PoolConfigs == {Normal, Adv(Num(2)), Neg(Num(1))}

SeqsUpTo(S, n) == UNION {[1..k -> S] : k \in 0..n}

\* the dice property of the argument: an array, or anything else
DiceArgs ==
    {[isArray |-> TRUE, dice |-> d] : d \in SeqsUpTo(PoolConfigs, MaxDice) \ {<<>>}}

DefaultDiceArgs == {[isArray |-> TRUE, dice |-> <<>>], [isArray |-> FALSE, dice |-> <<>>]}

BonusSuccessValues == {Undef, Num(2)}
BonusPenaltyValues == {Num(-1), Num(1)}

CallArgs(diceArgs) ==
    {[dice |-> d, bonusSuccess |-> s, bonusPenalty |-> p] :
        d \in diceArgs, s \in BonusSuccessValues, p \in BonusPenaltyValues}

NoArgs == [dice |-> [isArray |-> FALSE, dice |-> <<>>],
           bonusSuccess |-> Undef, bonusPenalty |-> Undef]

\* the rounds the pool of the call may take
\* the rounds of a run that goes past the cap of the automatic driver
LongRounds == SafetyCap + MaxRounds

RoundBound ==
    IF source = "long" THEN LongRounds
    ELSE IF ~args.dice.isArray \/ Len(args.dice.dice) = 0 \/ Len(args.dice.dice) > MaxDice
    THEN MaxDefaultRounds ELSE MaxRounds

\* what the random source may return to a die of round r
SourceValues(r) ==
    IF source = "stuck" THEN {6}
    ELSE IF source = "long" THEN {1, 6}
    ELSE IF r < RoundBound THEN DieValues ELSE DieValues \ {6}

\* the dice of the argument, whatever they are
DiceAsGiven(d) == d.dice

\* if (!Array.isArray(dice) || dice.length === 0) dice = 5 normal dice
DiceOrDefault(d) ==
    IF ~d.isArray \/ Len(d.dice) = 0 THEN [k \in 1..5 |-> Normal] ELSE d.dice

----------------------------------------------------------------------------
(* custom-dice.mjs: rollRolenrollPool, the automatic driver.               *)

allFaces == [k \in 1..Len(allResults) |-> allResults[k].face]

\* the faces of the dice that were not rolled again
ScoredFacesUnrerolled(results) ==
    LET Kept(result) == result.face # "R"
        kept == SelectSeq(results, Kept)
    IN  [k \in 1..Len(kept) |-> kept[k].face]

\* allFaces as line 119 hands it to scoreFaces, one face per result
ScoredFaces(results) == [k \in 1..Len(results) |-> results[k].face]

\* the loop with the cap tested as safety <= 100
AutoLoopOneMore(pend, results) ==
    IF Len(pend) > 0 /\ safety <= SafetyCap
    THEN /\ safety' = safety + 1
         /\ next' = <<>>
         /\ aI' = 1
         /\ roundLens' = Append(roundLens, Len(pend))
         /\ scoring' = scoring
         /\ aPc' = "awaitRoll"
    ELSE /\ scoring' = <<scoreFaces(ScoredFaces(results))>>
         /\ aPc' = "awaitChat"
         /\ UNCHANGED <<safety, next, aI, roundLens>>

\* the test of the while loop with pending = pend, and what follows it up to
\* the next await
AutoLoop(pend, results) ==
    IF Len(pend) > 0 /\ safety < SafetyCap
    THEN /\ safety' = safety + 1
         /\ next' = <<>>
         /\ aI' = 1
         /\ roundLens' = Append(roundLens, Len(pend))
         /\ scoring' = scoring
         /\ aPc' = "awaitRoll"
    ELSE /\ scoring' = <<scoreFaces(ScoredFaces(results))>>
         /\ aPc' = "awaitChat"
         /\ UNCHANGED <<safety, next, aI, roundLens>>

AutoCall(a) ==
    /\ variant \in {"auto", "both"}
    /\ aPc = "idle"
    /\ args' = a
    /\ pending' = DiceOrDefault(a.dice)
    /\ allResults' = <<>>
    /\ AutoLoop(DiceOrDefault(a.dice), <<>>)
    /\ UNCHANGED <<variant, source, tape, aPos>>

\* a die that is rolled again when it shows a Point as well
IsRerollOrPoint(face) == face \in {"R", "1"}

\* if (face === "R"), custom-dice.mjs line 110 and rnr_test.mjs line 126
IsReroll(face) == face = "R"

\* a reroll of a normal die, whatever die showed "R"
QueuedAsNormal(conf) == Normal

\* next.push({ ...conf }), line 112
Queued(conf) == conf

\* the await of line 103 resolves with v
AutoRollValue(v) ==
    /\ aPc = "awaitRoll"
    /\ LET conf == pending[aI]
           face == faceForRollCD(conf, Num(v))
           results == Append(allResults, [config |-> conf, roll |-> v, face |-> face])
           nxt == IF IsReroll(face) THEN Append(next, Queued(conf)) ELSE next
       IN  /\ allResults' = results
           /\ aPos' = aPos + 1
           /\ IF aI < Len(pending)
              THEN /\ aI' = aI + 1
                   /\ next' = nxt
                   /\ UNCHANGED <<aPc, pending, safety, roundLens, scoring>>
              ELSE /\ pending' = nxt
                   /\ AutoLoop(nxt, results)
    /\ UNCHANGED <<variant, args, source>>

\* the driver draws a fresh value from the random source
AutoRoll ==
    /\ aPos = Len(tape)
    /\ \E v \in SourceValues(safety) :
          /\ AutoRollValue(v)
          /\ tape' = Append(tape, v)
    /\ UNCHANGED <<interVars, scoreVars, sideVars>>

\* ChatMessage.create resolves and the call returns
AutoChat ==
    /\ aPc = "awaitChat"
    /\ aPc' = "done"
    /\ UNCHANGED <<variant, args, source, tape, pending, next, aI, safety, allResults,
                   roundLens, aPos, scoring, interVars, scoreVars, sideVars>>

\* { faces: allFaces, results: allResults, scoring }
AutoReturn == [faces |-> allFaces, results |-> allResults, scoring |-> scoring[1]]

\* the score the automatic driver reports (lines 131-140); what it shows as
\* "Total" is all the final total it has
AutoPoolScore ==
    [basePoints |-> scoring[1].basePoints,
     plusTokens |-> scoring[1].plusCount,
     minusTokens |-> scoring[1].minusCount,
     rerollCount |-> scoring[1].rerollCount,
     diceTotal |-> scoring[1].total,
     finalTotal |-> scoring[1].total]

\* the results of round k of the automatic driver, a round in progress
\* holding the results it has so far
RECURSIVE SumTo(_, _)
SumTo(lens, k) == IF k = 0 THEN 0 ELSE lens[k] + SumTo(lens, k - 1)

AutoRound(k) ==
    LET from == SumTo(roundLens, k - 1)
        to == Min(from + roundLens[k], Len(allResults))
    IN  [j \in 1..(to - from) |-> allResults[from + j]]

----------------------------------------------------------------------------
(* rnr_test.mjs: _finalizeAndSend.                                         *)

FacesOf(round) == [k \in 1..Len(round) |-> round[k].face]

RECURSIVE Flat(_)
Flat(rs) ==
    IF Len(rs) = 0 THEN <<>>
    ELSE IF Len(rs) = 1 THEN rs[1]
    ELSE LET half == Len(rs) \div 2
         IN  Flat(SubSeq(rs, 1, half)) \o Flat(SubSeq(rs, half + 1, Len(rs)))

\* faces.filter(f => S has f).length, and the reduce of lines 144-151
CountIn(faces, S) == Cardinality({k \in 1..Len(faces) : faces[k] \in S})

\* Number.isFinite(+b) ? +b : 0, then a negative value becomes 0
BonusOf(b) ==
    LET x == IF b.t = "number" THEN b.n ELSE 0
    IN  IF x < 0 THEN 0 ELSE x

FinalizeAndSend(rs, bonusSuccess, bonusPenalty) ==
    LET baseFaces == IF Len(rs) > 0 THEN FacesOf(rs[1]) ELSE <<>>
        rerollFaces == IF Len(rs) > 1 THEN FacesOf(Flat(Tail(rs))) ELSE <<>>
        faces == baseFaces \o rerollFaces
        scoringBase == scoreFaces(faces)
        diceTotal == scoringBase.total
        success == BonusOf(bonusSuccess)
        penalty == BonusOf(bonusPenalty)
        sum == diceTotal + success - penalty
    IN  [basePoints |-> scoringBase.basePoints,
         plusCount |-> scoringBase.plusCount,
         minusCount |-> scoringBase.minusCount,
         total |-> scoringBase.total,
         baseScore |-> CountIn(baseFaces, {"1", "R"}),
         rerollPoints |-> CountIn(rerollFaces, {"1", "R"}),
         plusTokens |-> CountIn(faces, {"+"}),
         minusTokens |-> CountIn(faces, {"-"}),
         rerollCount |-> CountIn(faces, {"R"}),
         success |-> success,
         penalty |-> penalty,
         diceTotal |-> diceTotal,
         finalTotal |-> IF sum < 0 THEN 0 ELSE sum]

\* the score part of what _finalizeAndSend returns (lines 210-221)
InterPoolScore(f) ==
    [basePoints |-> f.basePoints,
     plusTokens |-> f.plusTokens,
     minusTokens |-> f.minusTokens,
     rerollCount |-> f.rerollCount,
     diceTotal |-> f.diceTotal,
     finalTotal |-> f.finalTotal]

----------------------------------------------------------------------------
(* rnr_test.mjs: the interactive driver.  Its state is handled as one      *)
(* record, so that a handler is a function from the state before it to the *)
(* state after it.                                                         *)

IState ==
    [rounds |-> rounds, frames |-> frames, dialogs |-> dialogs, finals |-> finals,
     iReturn |-> iReturn, prompts |-> prompts, decisions |-> decisions,
     started |-> started, shown |-> shown]

ISet(S) ==
    /\ rounds' = S.rounds
    /\ frames' = S.frames
    /\ dialogs' = S.dialogs
    /\ finals' = S.finals
    /\ iReturn' = S.iReturn
    /\ prompts' = S.prompts
    /\ decisions' = S.decisions
    /\ started' = S.started
    /\ shown' = S.shown

Remove(seq, k) == [j \in 1..(Len(seq) - 1) |-> IF j < k THEN seq[j] ELSE seq[j + 1]]

\* _finalizeAndSend run a second time on the same rounds
FinalizedTwice(S, entry) ==
    LET score == FinalizeAndSend(S.rounds, args.bonusSuccess, args.bonusPenalty)
    IN  [S EXCEPT !.finals = @ \o <<score, score>>,
                  !.iReturn = IF entry THEN "result" ELSE @]

\* a call of _finalizeAndSend on the rounds array (lines 233 and 265); the
\* value is what the entry point's promise resolves to when the call is the
\* return value of the first _runInteractiveRoll
Finalized(S, entry) ==
    [S EXCEPT !.finals = Append(@, FinalizeAndSend(S.rounds, args.bonusSuccess,
                                                   args.bonusPenalty)),
              !.iReturn = IF entry THEN "result" ELSE @]

\* new Dialog({...}).render(true), after which _runInteractiveRoll returns
\* nothing (lines 244-271)
Prompted(S, rerollConfigs, entry) ==
    [S EXCEPT !.dialogs = Append(@, [rerollConfigs |-> rerollConfigs]),
              !.prompts = @ + 1,
              !.iReturn = IF entry THEN "undefined" ELSE @]

\* a Dialog after every round, whatever it shows
AfterRoundAlwaysPrompts(S, round, rerollConfigs, entry) ==
    Prompted([S EXCEPT !.rounds = Append(@, round)], rerollConfigs, entry)

\* the round is scored at once and the Dialog is rendered as well
AfterRoundScoresAtOnce(S, round, rerollConfigs, entry) ==
    LET S1 == [S EXCEPT !.rounds = Append(@, round)]
    IN  IF Len(rerollConfigs) = 0
        THEN Finalized(S1, entry)
        ELSE Prompted(Finalized(S1, entry), rerollConfigs, entry)

\* _runInteractiveRoll after _rollOneRound has returned (lines 229-271)
AfterRound(S, round, rerollConfigs, entry) ==
    LET S1 == [S EXCEPT !.rounds = Append(@, round)]
    IN  IF Len(rerollConfigs) = 0
        THEN Finalized(S1, entry)
        ELSE Prompted(S1, rerollConfigs, entry)

\* _runInteractiveRoll up to the first await of _rollOneRound (line 114)
RunInteractiveRoll(S, dice, entry) ==
    LET S1 == [S EXCEPT !.started = @ + 1]
    IN  IF Len(dice) = 0
        THEN AfterRound(S1, <<>>, <<>>, entry)
        ELSE [S1 EXCEPT !.frames = Append(@, [dice |-> dice, i |-> 1,
                                              thisRound |-> <<>>,
                                              rerollConfigs |-> <<>>,
                                              entry |-> entry])]

\* rerollConfigs.push({ ...config }), line 128
RerollConfig(config) == config

\* a result put in front of the results the round already has
RoundUnshift(thisRound, result) == <<result>> \o thisRound

\* thisRound.push({ config, roll: value, face }), line 124
RoundPush(thisRound, result) == Append(thisRound, result)

\* if (game.dice3d) game.dice3d.showForRoll(roll, game.user, true), lines 117-119
ShowForRoll(S) == IF dice3d THEN [S EXCEPT !.shown = @ + 1] ELSE S

\* _rollOneRound resumed with the value v of the roll it awaits (lines 114-132)
RollOneRoundValue(S, f, v) ==
    LET fr == S.frames[f]
        config == fr.dice[fr.i]
        S0 == ShowForRoll(S)
        face == faceForRoll(config, Num(v))
        thisRound == RoundPush(fr.thisRound, [config |-> config, roll |-> v, face |-> face])
        rerollConfigs == IF IsReroll(face) THEN Append(fr.rerollConfigs, RerollConfig(config))
                         ELSE fr.rerollConfigs
    IN  IF fr.i < Len(fr.dice)
        THEN [S0 EXCEPT !.frames[f] = [fr EXCEPT !.i = @ + 1,
                                                 !.thisRound = thisRound,
                                                 !.rerollConfigs = rerollConfigs]]
        ELSE AfterRound([S0 EXCEPT !.frames = Remove(@, f)], thisRound,
                        rerollConfigs, fr.entry)

\* a Dialog that stays on screen after a click
DialogStaysOpen(dlgs, d) == dlgs

\* the host's Dialog: a click on a button runs its callback and closes the
\* Dialog, so that each rendered Dialog takes one click
DialogAfterClick(dlgs, d) == Remove(dlgs, d)

InterCall(a) ==
    /\ variant \in {"interactive", "both"}
    /\ iReturn = "idle"
    /\ args' = a
    /\ ISet(RunInteractiveRoll([IState EXCEPT !.iReturn = "pending"],
                               DiceOrDefault(a.dice), TRUE))
    /\ UNCHANGED <<variant, source, tape>>

InterRoll ==
    \E f \in 1..Len(frames) :
        \E v \in SourceValues(Len(rounds) + 1) :
            /\ ISet(RollOneRoundValue(IState, f, v))
            /\ tape' = Append(tape, v)
            /\ UNCHANGED <<variant, args, source, autoVars, scoreVars, sideVars>>

\* the callback of the reroll button (lines 251-260)
\* a Reroll button that scores the pool once it has SafetyCap rounds
ClickRerollCapped ==
    \E d \in 1..Len(dialogs) :
        /\ Len(rounds) < RoundBound
        /\ LET S == [IState EXCEPT !.dialogs = DialogAfterClick(dialogs, d),
                                   !.decisions = Append(@, "reroll")]
           IN  ISet(IF Len(rounds) < SafetyCap
                    THEN RunInteractiveRoll(S, dialogs[d].rerollConfigs, FALSE)
                    ELSE Finalized(S, FALSE))
        /\ UNCHANGED <<variant, args, source, tape, autoVars, scoreVars, sideVars>>

ClickReroll ==
    \E d \in 1..Len(dialogs) :
        /\ Len(rounds) < RoundBound
        /\ ISet(RunInteractiveRoll(
                  [IState EXCEPT !.dialogs = DialogAfterClick(dialogs, d),
                                 !.decisions = Append(@, "reroll")],
                  dialogs[d].rerollConfigs, FALSE))
        /\ UNCHANGED <<variant, args, source, tape, autoVars, scoreVars, sideVars>>

\* a finish button whose callback is the one of the reroll button
ClickFinishRerolls ==
    \E d \in 1..Len(dialogs) :
        /\ Len(rounds) < RoundBound
        /\ ISet(RunInteractiveRoll(
                  [IState EXCEPT !.dialogs = DialogAfterClick(dialogs, d),
                                 !.decisions = Append(@, "finish")],
                  dialogs[d].rerollConfigs, FALSE))
        /\ UNCHANGED <<variant, args, source, tape, autoVars, scoreVars, sideVars>>

\* the callback of the finish button (lines 264-266)
ClickFinish ==
    \E d \in 1..Len(dialogs) :
        /\ ISet(Finalized(
                  [IState EXCEPT !.dialogs = DialogAfterClick(dialogs, d),
                                 !.decisions = Append(@, "finish")],
                  FALSE))
        /\ UNCHANGED <<variant, args, source, tape, autoVars, scoreVars, sideVars>>

\* the Dialog is closed without a choice
CloseDialog ==
    \E d \in 1..Len(dialogs) :
        /\ dialogs' = Remove(dialogs, d)
        /\ UNCHANGED <<variant, args, source, tape, autoVars, scoreVars, sideVars, rounds,
                       frames, finals, iReturn, prompts, decisions, started, shown>>

----------------------------------------------------------------------------
(* scoreFaces on a free list of faces.                                     *)

FaceLabels == {"1", "", "+", "-", "R"}

ScoreFacesCall ==
    /\ variant = "score"
    /\ sfScore = <<>>
    /\ sfScore' = <<scoreFaces(sfFaces)>>
    /\ UNCHANGED <<variant, args, source, tape, autoVars, interVars, sfFaces, sideVars>>

----------------------------------------------------------------------------
(* buildDieFaces and faceForRoll of both scripts on a free configuration   *)
(* and a free value.                                                       *)

\* what a caller may pass where a number is expected: nothing, something
\* Number() turns into NaN, or a number
JsNumbers == {Undef, NotNum} \cup {Num(k) : k \in (0 - MaxNumber)..MaxNumber}

\* "crit" stands for any kind that is not "adv" or "neg"
LayoutKinds == {"normal", "adv", "neg", "crit"}

LayoutConfigs ==
    {[kind |-> k, plusCount |-> p, minusCount |-> m] :
        k \in LayoutKinds, p \in JsNumbers, m \in JsNumbers}

BuildDieFacesCall ==
    /\ variant = "faces"
    /\ fnOut = <<>>
    /\ fnOut' = <<[op |-> "buildDieFaces",
                   rt |-> buildDieFaces(fnIn.config),
                   cd |-> buildDieFacesCD(fnIn.config)]>>
    /\ UNCHANGED <<variant, args, source, tape, autoVars, interVars, scoreVars,
                   dice3d, notes, fnIn, poolVars>>

FaceForRollCall ==
    /\ variant = "faces"
    /\ fnOut = <<>>
    /\ fnOut' = <<[op |-> "faceForRoll",
                   rt |-> faceForRoll(fnIn.config, fnIn.value),
                   cd |-> faceForRollCD(fnIn.config, fnIn.value)]>>
    /\ UNCHANGED <<variant, args, source, tape, autoVars, interVars, scoreVars,
                   dice3d, notes, fnIn, poolVars>>

----------------------------------------------------------------------------
(* rnr_test.mjs: parseSpecialTokens and buildDiceFromTray.  A text is the  *)
(* sequence of its characters.                                             *)

\* if (dice.length > 50), line 370
DiceCap == 50

Digits == <<"0", "1", "2", "3", "4", "5", "6", "7", "8", "9">>

IsDigit(c) == \E d \in 1..10 : Digits[d] = c

DigitValue(c) == (CHOOSE d \in 1..10 : Digits[d] = c) - 1

\* [,\s]
IsSeparator(c) == c \in {",", " "}

\* the length of the run of non-separators a text starts with
RunLength(text) ==
    IF \E k \in 1..Len(text) : IsSeparator(text[k])
    THEN (CHOOSE k \in 1..Len(text) :
              IsSeparator(text[k]) /\ \A j \in 1..(k - 1) : ~IsSeparator(text[j])) - 1
    ELSE Len(text)

\* specialText.split(/[,\s]+/).filter(t => t.length), line 295
RECURSIVE SplitTokens(_)
SplitTokens(text) ==
    IF Len(text) = 0 THEN <<>>
    ELSE IF IsSeparator(text[1]) THEN SplitTokens(Tail(text))
    ELSE LET n == RunLength(text)
         IN  <<SubSeq(text, 1, n)>> \o SplitTokens(SubSeq(text, n + 1, Len(text)))

\* /^a\d+$/i.test(tok) for letter "a", /^n\d+$/i.test(tok) for letter "n"
IsSpecialToken(tok, lower, upper) ==
    /\ Len(tok) >= 2
    /\ tok[1] \in {lower, upper}
    /\ \A k \in 2..Len(tok) : IsDigit(tok[k])

\* parseInt(digits, 10) of a text of digits
RECURSIVE ParseInt(_)
ParseInt(digits) ==
    IF Len(digits) = 0 THEN 0
    ELSE 10 * ParseInt(SubSeq(digits, 1, Len(digits) - 1)) + DigitValue(digits[Len(digits)])

\* the count of a token as parsed, out-of-range values included
CountAsTyped(count) == count

\* lines 300-310 and 317-327: above 4 becomes 4, below 1 becomes 1
CountInRange(count) == IF count > 4 THEN 4 ELSE IF count < 1 THEN 1 ELSE count

CountWarning(kind, count) ==
    IF count > 4 THEN <<[warn |-> "at most 4", kind |-> kind]>>
    ELSE IF count < 1 THEN <<[warn |-> "at least 1", kind |-> kind]>>
    ELSE <<>>

\* one iteration of the for loop of lines 297-333 on the result so far
ParseToken(acc, tok) ==
    IF IsSpecialToken(tok, "a", "A") THEN
        LET plusCount == ParseInt(Tail(tok))
        IN  [specials |-> Append(acc.specials, Adv(Num(CountInRange(plusCount)))),
             notes |-> acc.notes \o CountWarning("adv", plusCount)]
    ELSE IF IsSpecialToken(tok, "n", "N") THEN
        LET minusCount == ParseInt(Tail(tok))
        IN  [specials |-> Append(acc.specials, Neg(Num(CountInRange(minusCount)))),
             notes |-> acc.notes \o CountWarning("neg", minusCount)]
    ELSE [specials |-> acc.specials,
          notes |-> Append(acc.notes, [warn |-> "unknown token", kind |-> "none"])]

RECURSIVE ParseTokens(_)
ParseTokens(tokens) ==
    IF Len(tokens) = 0 THEN [specials |-> <<>>, notes |-> <<>>]
    ELSE ParseToken(ParseTokens(SubSeq(tokens, 1, Len(tokens) - 1)), tokens[Len(tokens)])

parseSpecialTokens(specialText) == ParseTokens(SplitTokens(specialText))

\* return null after a warning
Rejected(parsed, why) ==
    [rejected |-> TRUE, dice |-> <<>>,
     notes |-> Append(parsed.notes, [warn |-> why, kind |-> "none"])]

\* a cap that lets a list of DiceCap + 1 dice through
TooManyOffByOne(dice) == Len(dice) > DiceCap + 1

\* dice.length > 50, line 370
TooMany(dice) == Len(dice) > DiceCap

buildDiceFromTray(total, specialText) ==
    LET parsed == parseSpecialTokens(specialText)
        specials == parsed.specials
        normalCount == IF total > 0 THEN total - Len(specials)
                       ELSE IF Len(specials) = 0 THEN 5 ELSE 0
        dice == [k \in 1..normalCount |-> Normal] \o specials
    IN  IF total > 0 /\ Len(specials) > total THEN Rejected(parsed, "more specials than total")
        ELSE IF Len(dice) = 0 THEN Rejected(parsed, "no dice")
        ELSE IF TooMany(dice) THEN Rejected(parsed, "too many dice")
        ELSE [rejected |-> FALSE, dice |-> dice, notes |-> parsed.notes]

\* the tokens typed into the tray: a1, A7, a0, n2, n10, x3 and a
TrayTokens ==
    {<<"a", "1">>, <<"A", "7">>, <<"a", "0">>, <<"n", "2">>, <<"n", "1", "0">>,
     <<"x", "3">>, <<"a">>}

TraySeparators == {<<" ">>, <<",", " ">>}

RECURSIVE JoinWith(_, _)
JoinWith(tokens, sep) ==
    IF Len(tokens) = 0 THEN <<>>
    ELSE IF Len(tokens) = 1 THEN tokens[1]
    ELSE tokens[1] \o sep \o JoinWith(Tail(tokens), sep)

\* texts of at most n tokens, some of them starting with a separator
TrayTexts(n) ==
    LET joined == {JoinWith(tokens, sep) :
                      tokens \in SeqsUpTo(TrayTokens, n), sep \in TraySeparators}
    IN  joined \cup {<<",">> \o text : text \in joined}

\* the totals typed into the tray: none, a few dice, and around the cap
TrayTotals == {-1, 0} \cup 1..(MaxTokens + 1) \cup {DiceCap - 1, DiceCap, DiceCap + 1}

BuildDiceFromTrayCall ==
    /\ variant = "tray"
    /\ fnOut = <<>>
    /\ LET built == buildDiceFromTray(fnIn.total, fnIn.specialText)
       IN  /\ fnOut' = <<built>>
           /\ notes' = notes \o built.notes
    /\ UNCHANGED <<variant, args, source, tape, autoVars, interVars, scoreVars,
                   dice3d, fnIn, poolVars>>

----------------------------------------------------------------------------
(* rnr_test.mjs: the Roll button of the dice tray and the chat command     *)
(* /rr. game.rolenroll.rollPool is the driver that the init hook of either *)
(* script has registered.                                                  *)

\* a handler that goes on to rollPool whatever buildDiceFromTray returned
NeverAborts(built) == FALSE

\* if (!dice) return;
Aborts(built) == built.rejected

\* game.rolenroll.rollPool({ actor, dice, ... })
RollPool(a) ==
    \/ /\ variant = "auto"
       /\ AutoCall(a)
       /\ UNCHANGED interVars
    \/ /\ variant = "interactive"
       /\ InterCall(a)
       /\ UNCHANGED autoVars

\* the part the two handlers share: the warnings, then rollPool unless the
\* input was rejected
BuildAndRoll(input, warned, built, success, penalty) ==
    /\ variant \in {"auto", "interactive"}
    /\ fnOut = <<>>
    /\ fnIn' = input
    /\ fnOut' = <<built>>
    /\ notes' = notes \o warned \o built.notes
    /\ IF Aborts(built)
       THEN UNCHANGED <<variant, args, source, tape, autoVars, interVars>>
       ELSE RollPool([dice |-> [isArray |-> TRUE, dice |-> built.dice],
                      bonusSuccess |-> success, bonusPenalty |-> penalty])
    /\ UNCHANGED <<scoreVars, dice3d, poolVars>>

\* the texts of the special field: empty, a1, "n10, a1" and x3
HandlerTexts ==
    {<<>>, <<"a", "1">>, <<"n", "1", "0", ",", " ", "a", "1">>, <<"x", "3">>}

\* parseInt(...) || 0 of the total field
HandlerTotals == {0, 1, 2, DiceCap + 1}

\* parseInt of the success and penalty fields
HandlerBonuses == {[success |-> NotNum, penalty |-> Num(-1)],
                   [success |-> Num(2), penalty |-> Num(1)]}

\* if (!Number.isFinite(x)) x = 0; if (x < 0) x = 0;
TrayBonus(x) == IF x.t # "number" \/ x.n < 0 THEN Num(0) ELSE x

\* the click handler of .role-roll-tray-roll, lines 682-702
TrayClick ==
    \E total \in HandlerTotals, specialText \in HandlerTexts, b \in HandlerBonuses :
        BuildAndRoll([handler |-> "tray", total |-> total, specialText |-> specialText],
                     <<>>,
                     buildDiceFromTray(total, specialText),
                     TrayBonus(b.success), TrayBonus(b.penalty))

\* /^\d+$/.test(arg)
IsNumberArg(arg) == Len(arg) > 0 /\ \A k \in 1..Len(arg) : IsDigit(arg[k])

\* the for loop of lines 614-625 on the arguments of /rr
RECURSIVE ChatArgs(_)
ChatArgs(cmdArgs) ==
    IF Len(cmdArgs) = 0 THEN [totalDice |-> Undef, specialsTokens |-> <<>>, notes |-> <<>>]
    ELSE LET acc == ChatArgs(SubSeq(cmdArgs, 1, Len(cmdArgs) - 1))
             arg == cmdArgs[Len(cmdArgs)]
         IN  IF IsNumberArg(arg) THEN
                 IF acc.totalDice = Undef
                 THEN [acc EXCEPT !.totalDice = Num(ParseInt(arg))]
                 ELSE [acc EXCEPT !.notes = Append(@, [warn |-> "only the first number",
                                                       kind |-> "none"])]
             ELSE [acc EXCEPT !.specialsTokens = Append(@, arg)]

\* the arguments typed after /rr: none, 51, "1 a1 n10", "a1 2 3", x3, "2 n10,a1"
ChatCommands ==
    {<<>>,
     <<<<"5", "1">>>>,
     <<<<"1">>, <<"a", "1">>, <<"n", "1", "0">>>>,
     <<<<"a", "1">>, <<"2">>, <<"3">>>>,
     <<<<"x", "3">>>>,
     <<<<"2">>, <<"n", "1", "0", ",", "a", "1">>>>}

\* the chatMessage hook, lines 605-636
ChatCommand ==
    \E cmdArgs \in ChatCommands :
        LET parsed == ChatArgs(cmdArgs)
            total == IF parsed.totalDice = Undef THEN 0 ELSE parsed.totalDice.n
            specialText == JoinWith(parsed.specialsTokens, <<" ">>)
        IN  BuildAndRoll([handler |-> "chat", total |-> total, specialText |-> specialText],
                         parsed.notes,
                         buildDiceFromTray(total, specialText),
                         Undef, Undef)

----------------------------------------------------------------------------
(* Two calls of game.rolenroll.rollPool in flight at once.  JavaScript     *)
(* runs one of them at a time and goes from one to the other where the     *)
(* first awaits or has returned; what a call keeps across that is its      *)
(* parameters and locals and the arrays it created.                        *)

\* the parameters and locals of the invocation that runs, its arrays apart
Registers ==
    [args |-> args, tape |-> tape, aPc |-> aPc, pending |-> pending, next |-> next,
     aI |-> aI, safety |-> safety, roundLens |-> roundLens, aPos |-> aPos,
     scoring |-> scoring, frames |-> frames, dialogs |-> dialogs, finals |-> finals,
     iReturn |-> iReturn, prompts |-> prompts, decisions |-> decisions,
     started |-> started, shown |-> shown, pool |-> pool, ref |-> ref]

\* the second invocation before its call
NotCalled ==
    [args |-> NoArgs, tape |-> <<>>, aPc |-> "idle", pending |-> <<>>, next |-> <<>>,
     aI |-> 0, safety |-> 0, roundLens |-> <<>>, aPos |-> 0,
     scoring |-> <<>>, frames |-> <<>>, dialogs |-> <<>>, finals |-> <<>>,
     iReturn |-> "idle", prompts |-> 0, decisions |-> <<>>,
     started |-> 0, shown |-> 0, pool |-> 2, ref |-> 0]

\* one array that every call uses
SharedArray(used) == 1

\* the array literal of "rounds: []" (rnr_test.mjs, line 285) and of
\* "const allResults = []" (custom-dice.mjs, line 90): an array no other
\* call has
NewArray(used) == used + 1

Contents(h, r) == IF r = 0 THEN <<>> ELSE h[r]

Store(h, r, c) == IF r = 0 THEN h ELSE [h EXCEPT ![r] = c]

\* the dice and bonuses of the two calls: the first rolls normal and
\* advantage dice, the second a negative die
PoolArgs(p) ==
    IF p = 1
    THEN {[dice |-> [isArray |-> TRUE, dice |-> d],
           bonusSuccess |-> Num(2), bonusPenalty |-> Num(1)] :
             d \in {<<Adv(Num(2))>>, <<Normal, Adv(Num(2))>>}}
    ELSE {[dice |-> [isArray |-> TRUE, dice |-> <<Neg(Num(1))>>],
           bonusSuccess |-> Undef, bonusPenalty |-> Num(-1)]}

\* game.rolenroll.rollPool(...) by the invocation that runs
PoolCall ==
    \E a \in PoolArgs(pool) :
        /\ ref = 0
        /\ ref' = NewArray(parked.ref)
        /\ RollPool(a)
        /\ UNCHANGED <<scoreVars, dice3d, notes, fnIn, fnOut, pool, heap, parked>>

\* the invocation that runs awaits or has returned, and the other one goes on
Switch ==
    LET h == Store(heap, ref, IF variant = "auto" THEN allResults ELSE rounds)
        mine == Contents(h, parked.ref)
    IN  /\ heap' = h
        /\ parked' = Registers
        /\ args' = parked.args
        /\ tape' = parked.tape
        /\ aPc' = parked.aPc
        /\ pending' = parked.pending
        /\ next' = parked.next
        /\ aI' = parked.aI
        /\ safety' = parked.safety
        /\ roundLens' = parked.roundLens
        /\ aPos' = parked.aPos
        /\ scoring' = parked.scoring
        /\ frames' = parked.frames
        /\ dialogs' = parked.dialogs
        /\ finals' = parked.finals
        /\ iReturn' = parked.iReturn
        /\ prompts' = parked.prompts
        /\ decisions' = parked.decisions
        /\ started' = parked.started
        /\ shown' = parked.shown
        /\ pool' = parked.pool
        /\ ref' = parked.ref
        /\ allResults' = IF variant = "auto" THEN mine ELSE <<>>
        /\ rounds' = IF variant = "auto" THEN <<>> ELSE mine
        /\ UNCHANGED <<variant, source, scoreVars, dice3d, notes, fnIn, fnOut>>

----------------------------------------------------------------------------
(* Specifications.                                                         *)

Idle ==
    /\ args = NoArgs
    /\ tape = <<>>
    /\ aPc = "idle"
    /\ pending = <<>>
    /\ next = <<>>
    /\ aI = 0
    /\ safety = 0
    /\ allResults = <<>>
    /\ roundLens = <<>>
    /\ aPos = 0
    /\ scoring = <<>>
    /\ rounds = <<>>
    /\ frames = <<>>
    /\ dialogs = <<>>
    /\ finals = <<>>
    /\ iReturn = "idle"
    /\ prompts = 0
    /\ decisions = <<>>
    /\ started = 0
    /\ shown = 0
    /\ sfScore = <<>>
    /\ notes = <<>>
    /\ fnOut = <<>>
    /\ pool = 1
    /\ ref = 0
    /\ heap = <<<<>>, <<>>>>
    /\ parked = NotCalled

\* one of the two scripts is loaded and its rollRolenrollPool is called with
\* a list of 1..MaxDice dice
Init ==
    /\ variant \in {"auto", "interactive"}
    /\ source \in {"fair", "stuck"}
    /\ sfFaces = <<>>
    /\ dice3d = FALSE
    /\ fnIn = <<>>
    /\ Idle

AutoCallDice == \E a \in CallArgs(DiceArgs) : AutoCall(a) /\ UNCHANGED <<interVars, scoreVars, sideVars>>

InterCallDice == \E a \in CallArgs(DiceArgs) : InterCall(a) /\ UNCHANGED <<autoVars, scoreVars, sideVars>>

Next ==
    \/ AutoCallDice
    \/ AutoRoll
    \/ AutoChat
    \/ InterCallDice
    \/ InterRoll
    \/ ClickReroll
    \/ ClickFinish
    \/ CloseDialog

Spec == Init /\ [][Next]_vars

\* rollRolenrollPool is called with an empty list or with no list
AutoCallDefault ==
    \E a \in CallArgs(DefaultDiceArgs) : AutoCall(a) /\ UNCHANGED <<interVars, scoreVars, sideVars>>

InterCallDefault ==
    \E a \in CallArgs(DefaultDiceArgs) : InterCall(a) /\ UNCHANGED <<autoVars, scoreVars, sideVars>>

NextDefault ==
    \/ AutoCallDefault
    \/ AutoRoll
    \/ AutoChat
    \/ InterCallDefault
    \/ InterRoll
    \/ ClickReroll
    \/ ClickFinish
    \/ CloseDialog

SpecDefault == Init /\ [][NextDefault]_vars

\* both scripts are given the same call, and the automatic driver is run on
\* the values the random source returned to the interactive one
InitBoth ==
    /\ variant = "both"
    /\ source \in {"fair", "stuck"}
    /\ sfFaces = <<>>
    /\ dice3d = FALSE
    /\ fnIn = <<>>
    /\ Idle

BothCall ==
    \E a \in CallArgs(DiceArgs) :
        /\ AutoCall(a)
        /\ InterCall(a)
        /\ UNCHANGED <<scoreVars, sideVars>>

AutoReplay ==
    /\ aPos < Len(tape)
    /\ AutoRollValue(tape[aPos + 1])
    /\ UNCHANGED <<tape, interVars, scoreVars, sideVars>>

NextBoth ==
    \/ BothCall
    \/ AutoReplay
    \/ AutoChat
    \/ InterRoll
    \/ ClickReroll
    \/ ClickFinish
    \/ CloseDialog

SpecBoth == InitBoth /\ [][NextBoth]_vars

\* scoreFaces called on any list of at most MaxFaces faces
InitScore ==
    /\ variant = "score"
    /\ source = "fair"
    /\ sfFaces \in SeqsUpTo(FaceLabels, MaxFaces)
    /\ dice3d = FALSE
    /\ fnIn = <<>>
    /\ Idle

NextScore == ScoreFacesCall

SpecScore == InitScore /\ [][NextScore]_vars

\* the interactive driver on a host with or without Dice So Nice
InitRound ==
    /\ variant = "interactive"
    /\ source \in {"fair", "stuck"}
    /\ sfFaces = <<>>
    /\ dice3d \in BOOLEAN
    /\ fnIn = <<>>
    /\ Idle

NextRound ==
    \/ InterCallDice
    \/ InterRoll
    \/ ClickReroll
    \/ ClickFinish
    \/ CloseDialog

SpecRound == InitRound /\ [][NextRound]_vars

\* buildDieFaces or faceForRoll called on any configuration and any value
InitFaces ==
    /\ variant = "faces"
    /\ source = "fair"
    /\ sfFaces = <<>>
    /\ dice3d = FALSE
    /\ fnIn \in [config : LayoutConfigs, value : JsNumbers]
    /\ Idle

NextFaces ==
    \/ BuildDieFacesCall
    \/ FaceForRollCall

SpecFaces == InitFaces /\ [][NextFaces]_vars

\* buildDiceFromTray called on any total and any text of the tray
InitTray ==
    /\ variant = "tray"
    /\ source = "fair"
    /\ sfFaces = <<>>
    /\ dice3d = FALSE
    /\ fnIn \in [total : TrayTotals, specialText : TrayTexts(MaxTokens)]
    /\ Idle

NextTray == BuildDiceFromTrayCall

SpecTray == InitTray /\ [][NextTray]_vars

\* a click on the Roll button of the tray or a /rr command, and the roll
\* it starts
NextHandlers ==
    \/ TrayClick
    \/ ChatCommand
    \/ AutoRoll
    \/ AutoChat
    \/ InterRoll
    \/ ClickReroll
    \/ ClickFinish
    \/ CloseDialog

SpecHandlers == Init /\ [][NextHandlers]_vars

\* two calls of rollPool of the same script, run in any interleaving
InitPools ==
    /\ variant \in {"auto", "interactive"}
    /\ source = "fair"
    /\ sfFaces = <<>>
    /\ dice3d = FALSE
    /\ fnIn = <<>>
    /\ Idle

NextPools ==
    \/ PoolCall
    \/ Switch
    \/ AutoRoll
    \/ AutoChat
    \/ InterRoll
    \/ ClickReroll
    \/ ClickFinish
    \/ CloseDialog

SpecPools == InitPools /\ [][NextPools]_vars

\* the interactive driver called with one normal die, on a source that may
\* return 6 at every roll of a run of LongRounds rounds
InitLong ==
    /\ variant = "interactive"
    /\ source = "long"
    /\ sfFaces = <<>>
    /\ dice3d = FALSE
    /\ fnIn = <<>>
    /\ Idle

InterCallLong ==
    /\ InterCall([dice |-> [isArray |-> TRUE, dice |-> <<Normal>>],
                  bonusSuccess |-> Undef, bonusPenalty |-> Undef])
    /\ UNCHANGED <<autoVars, scoreVars, sideVars>>

NextLong ==
    \/ InterCallLong
    \/ InterRoll
    \/ ClickReroll
    \/ ClickFinish
    \/ CloseDialog

SpecLong == InitLong /\ [][NextLong]_vars

----------------------------------------------------------------------------
(* Properties.                                                             *)

\* views of a resolution the properties are stated on
ConfigsOf(round) == [k \in 1..Len(round) |-> round[k].config]

ShowsReroll(result) == result.face = "R"

\* the dice behind the Reroll faces of a round, in the order of the round
RerollsOf(round) == ConfigsOf(SelectSeq(round, ShowsReroll))

IsPrefix(p, s) == Len(p) <= Len(s) /\ p = SubSeq(s, 1, Len(p))

Extends(s, t) == IsPrefix(s, t)

LastOf(s) == s[Len(s)]

CountOf(s, x) == Cardinality({k \in 1..Len(s) : s[k] = x})

\* the caller's bonus as a number, a missing one taken as 0
BonusGiven(b) == IF b.t = "number" THEN b.n ELSE 0

\* the position of the automatic driver: the await it is at, the iteration
\* of the while loop, the die of the for loop
AutoPcRank == CASE aPc = "idle" -> 0 [] aPc = "awaitRoll" -> 1
                [] aPc = "awaitChat" -> 2 [] OTHER -> 3

AutoAdvances ==
    \/ AutoPcRank' > AutoPcRank
    \/ AutoPcRank' = AutoPcRank /\ safety' > safety
    \/ AutoPcRank' = AutoPcRank /\ safety' = safety /\ aI' > aI

\* C1: the automatic driver ends after at most 100 rounds, whatever the
\* random source returns (the source stuck on 6 included): it never enters
\* the body of its while loop more than 100 times, a round rolls no more
\* dice than the call started with, what it awaits is the roll of a die of
\* the round or the chat message, and every step moves it forward (to the
\* next die, the next round or the next await).
C1_AutoTerminates ==
    /\ [](/\ safety <= SafetyCap
          /\ Len(roundLens) = safety
          /\ Len(pending) <= Len(DiceOrDefault(args.dice))
          /\ aPc = "awaitRoll" => aI \in 1..Len(pending) /\ aPos = Len(tape)
          /\ aPc \in {"awaitChat", "done"} => Len(scoring) = 1)
    /\ [][(aPc \in {"awaitRoll", "awaitChat"}) => AutoAdvances]_autoVars

\* the source returned 6 on every call and the driver ended after round 100
\* with dice still pending
C1_StuckSourceEnds ==
    /\ aPc = "done"
    /\ source = "stuck"
    /\ Len(roundLens) = SafetyCap
    /\ safety = SafetyCap
    /\ Len(pending) > 0
    /\ \A k \in 1..Len(tape) : tape[k] = 6

\* C3: for every list of faces, the total scoreFaces returns is 0 when no
\* face is "1" or "R", and max(0, points + plus - minus) otherwise; it is
\* never negative.
C3_DiceTotal ==
    sfScore # <<>> =>
        LET points == CountIn(sfFaces, {"1", "R"})
            plus == CountIn(sfFaces, {"+"})
            minus == CountIn(sfFaces, {"-"})
        IN  /\ sfScore[1].basePoints = points
            /\ sfScore[1].total >= 0
            /\ points = 0 => sfScore[1].total = 0
            /\ points > 0 => sfScore[1].total = Max(0, points + plus - minus)

\* a list with Plus faces and no point scored 0
C3_TokensInert ==
    /\ sfScore # <<>>
    /\ CountIn(sfFaces, {"+"}) > 0
    /\ CountIn(sfFaces, {"1", "R"}) = 0
    /\ sfScore[1].total = 0

\* C2: a pool resolved by both drivers on the same dice, the same bonuses
\* and the same random values, the interactive caller having chosen reroll
\* at every prompt, gets the same score from both: basePoints, plusTokens,
\* minusTokens, rerollCount, diceTotal and finalTotal.
C2_SamePoolScore ==
    (/\ aPc = "done"
     /\ Len(finals) = 1
     /\ \A k \in 1..Len(decisions) : decisions[k] = "reroll"
     /\ aPos = Len(tape)
     /\ frames = <<>>
     /\ dialogs = <<>>)
    => AutoPoolScore = InterPoolScore(finals[1])

\* C4: every finalized pool, of either driver, has
\* finalTotal = max(0, diceTotal + max(0, bonusSuccess) - max(0, bonusPenalty)),
\* a missing bonus taken as 0, and so never a negative finalTotal.
C4_FinalTotal ==
    LET success == Max(0, BonusGiven(args.bonusSuccess))
        penalty == Max(0, BonusGiven(args.bonusPenalty))
        Expected(diceTotal) == Max(0, diceTotal + success - penalty)
    IN  /\ \A i \in 1..Len(finals) :
              /\ finals[i].finalTotal = Expected(finals[i].diceTotal)
              /\ finals[i].finalTotal >= 0
        /\ aPc = "done" =>
              /\ AutoPoolScore.finalTotal = Expected(AutoPoolScore.diceTotal)
              /\ AutoPoolScore.finalTotal >= 0

\* C5: a call with a list of 0 dice never consults the random source, its
\* rounds are one empty round, its counts and its diceTotal are 0 and its
\* finalTotal is max(0, bonusSuccess - bonusPenalty).
C5_EmptyPool ==
    LET success == Max(0, BonusGiven(args.bonusSuccess))
        penalty == Max(0, BonusGiven(args.bonusPenalty))
    IN  (args.dice.isArray /\ Len(args.dice.dice) = 0) =>
            /\ tape = <<>>
            /\ allResults = <<>>
            /\ \A r \in 1..Len(rounds) : rounds[r] = <<>>
            /\ \A i \in 1..Len(finals) :
                  /\ finals[i].basePoints = 0
                  /\ finals[i].plusTokens = 0
                  /\ finals[i].minusTokens = 0
                  /\ finals[i].rerollCount = 0
                  /\ finals[i].diceTotal = 0
                  /\ finals[i].finalTotal = Max(0, success - penalty)
            /\ aPc = "done" =>
                  /\ scoring[1].basePoints = 0
                  /\ scoring[1].rerollCount = 0
                  /\ scoring[1].total = 0

\* the dice of round k of the automatic driver, as the rule of C6 has them
AutoDiceOfRound(k) ==
    IF k = 1 THEN DiceOrDefault(args.dice) ELSE RerollsOf(AutoRound(k - 1))

\* the same for round r of the interactive driver
InterDiceOfRound(r) ==
    IF r = 1 THEN DiceOrDefault(args.dice) ELSE RerollsOf(rounds[r - 1])

\* C6: under either driver, the dice of round k+1 are the dice that showed
\* Reroll in round k, one for one, in the order of round k and with the
\* configuration (kind, plus/minus count) of the die that showed it; a die
\* that showed another face is not rolled again.  For the automatic driver
\* this is stated on its current round and the one before, together with
\* the fact that the rounds rolled are never rewritten.
C6_RerollDiceOnly ==
    /\ [](/\ \A r \in 1..Len(rounds) : ConfigsOf(rounds[r]) = InterDiceOfRound(r)
          /\ \A f \in 1..Len(frames) :
                /\ frames[f].dice = InterDiceOfRound(Len(rounds) + 1)
                /\ frames[f].i = Len(frames[f].thisRound) + 1
                /\ IsPrefix(ConfigsOf(frames[f].thisRound), frames[f].dice)
          /\ \A d \in 1..Len(dialogs) :
                dialogs[d].rerollConfigs = InterDiceOfRound(Len(rounds) + 1)
          /\ Len(roundLens) > 0 =>
                LET k == Len(roundLens)
                IN  /\ roundLens[k] = Len(AutoDiceOfRound(k))
                    /\ IsPrefix(ConfigsOf(AutoRound(k)), AutoDiceOfRound(k))
                    /\ aPc = "awaitRoll" =>
                          /\ pending = AutoDiceOfRound(k)
                          /\ Len(AutoRound(k)) = aI - 1
                          /\ next = RerollsOf(AutoRound(k))
                    /\ aPc # "awaitRoll" =>
                          /\ Len(AutoRound(k)) = roundLens[k]
                          /\ pending = RerollsOf(AutoRound(k)))
    /\ [][/\ Extends(allResults, allResults')
          /\ Extends(roundLens, roundLens')
          /\ Extends(rounds, rounds')
          /\ Len(roundLens') > Len(roundLens) =>
                Len(allResults') = SumTo(roundLens, Len(roundLens))]_vars

\* two dice of different configurations both showed Reroll and both have
\* been rolled again, in their order
C6_TwoKindsRerolled ==
    /\ Len(rounds) >= 2
    /\ Len(rounds[1]) = 2
    /\ rounds[1][1].face = "R"
    /\ rounds[1][2].face = "R"
    /\ rounds[1][1].config.kind = "neg"
    /\ rounds[1][2].config.kind = "adv"
    /\ Len(rounds[2]) = 2

\* C7: the basePoints of a resolved pool are the Point faces plus the
\* Reroll faces of all its rounds and its rerollCount is the Reroll faces
\* of all its rounds, so that rerollCount <= basePoints.
C7_PointsAndRerolls ==
    /\ \A i \in 1..Len(finals) :
          LET faces == FacesOf(Flat(rounds))
          IN  /\ finals[i].basePoints = CountOf(faces, "1") + CountOf(faces, "R")
              /\ finals[i].rerollCount = CountOf(faces, "R")
              /\ finals[i].rerollCount <= finals[i].basePoints
    /\ aPc \in {"awaitChat", "done"} =>
          /\ scoring[1].basePoints = CountOf(allFaces, "1") + CountOf(allFaces, "R")
          /\ scoring[1].rerollCount = CountOf(allFaces, "R")
          /\ scoring[1].rerollCount <= scoring[1].basePoints

\* a pool resolved with Reroll faces and Point faces
C7_RerollsCountTwice ==
    /\ Len(finals) = 1
    /\ finals[1].rerollCount >= 1
    /\ finals[1].basePoints > finals[1].rerollCount
    /\ CountOf(FacesOf(Flat(rounds)), "1") >= 1

\* C8: a click on "finish" finalizes the pool with the rounds it has: the
\* click rolls nothing and adds no round, nothing is rolled after it, and
\* the score counts the Reroll faces of the last round like those of the
\* rounds before.
C8_FinishFinalizes ==
    /\ []((decisions # <<>> /\ LastOf(decisions) = "finish") =>
            LET faces == FacesOf(Flat(rounds))
            IN  /\ frames = <<>>
                /\ dialogs = <<>>
                /\ Len(finals) = 1
                /\ started = Len(rounds)
                /\ Len(tape) = Len(faces)
                /\ CountOf(FacesOf(LastOf(rounds)), "R") >= 1
                /\ finals[1].rerollCount = CountOf(faces, "R")
                /\ finals[1].basePoints = CountOf(faces, "1") + CountOf(faces, "R"))
    /\ [][(decisions' # decisions /\ LastOf(decisions') = "finish") =>
            /\ tape' = tape
            /\ rounds' = rounds
            /\ frames' = frames
            /\ Len(finals') = Len(finals) + 1]_vars

\* "finish" chosen at the second prompt, two Reroll faces left unrolled
C8_FinishedWithRerollsLeft ==
    /\ Len(decisions) = 2
    /\ decisions[2] = "finish"
    /\ Len(rounds) = 2
    /\ CountOf(FacesOf(rounds[2]), "R") = 2
    /\ Len(finals) = 1

\* C9: while a reroll prompt has not been answered, the interactive
\* driver rolls nothing and finalizes nothing: any step that changes the
\* rolls, the rounds or the scores is a button callback.  A pool whose
\* prompt is never answered has no score.
C9_WaitsForDecision ==
    /\ [](prompts > Len(decisions) =>
            /\ prompts = Len(decisions) + 1
            /\ frames = <<>>
            /\ finals = <<>>
            /\ CountOf(FacesOf(LastOf(rounds)), "R") >= 1
            /\ Len(tape) = Len(Flat(rounds)))
    /\ [](finals # <<>> =>
            \/ CountOf(FacesOf(LastOf(rounds)), "R") = 0
            \/ (decisions # <<>> /\ LastOf(decisions) = "finish"))
    /\ [][prompts > Len(decisions) =>
            \/ Len(decisions') = Len(decisions) + 1
            \/ UNCHANGED <<tape, rounds, frames, finals>>]_vars

\* the second prompt was closed without a choice
C9_Abandoned ==
    /\ prompts = 2
    /\ Len(decisions) = 1
    /\ dialogs = <<>>
    /\ finals = <<>>
    /\ frames = <<>>

C11_ScoredOnce ==
    /\ [](/\ Len(finals) <= 1
          /\ Len(scoring) <= 1
          /\ finals # <<>> =>
                /\ frames = <<>>
                /\ dialogs = <<>>
                /\ finals[1].basePoints = CountIn(FacesOf(Flat(rounds)), {"1", "R"})
          /\ scoring # <<>> =>
                /\ aPc \in {"awaitChat", "done"}
                /\ scoring[1].basePoints = CountIn(allFaces, {"1", "R"}))
    /\ [][/\ finals # <<>> => UNCHANGED <<finals, rounds, tape, started>>
          /\ scoring # <<>> => UNCHANGED <<scoring, allResults, tape, safety>>]_vars

\* a pool finalized after two rerolls, scored once
C11_FinalizedAfterRerolls ==
    /\ decisions = <<"reroll", "reroll">>
    /\ Len(rounds) = 3
    /\ Len(finals) = 1
    /\ finals[1].rerollCount >= 2

\* C12: a finalized pool has had its rounds and its score returned to the
\* caller of rollRolenrollPool, whether it was finalized by the first round
\* or after reroll or finish decisions.
C12_ReturnedToCaller ==
    /\ finals # <<>> => iReturn = "result"
    /\ aPc = "done" => AutoReturn.scoring = scoring[1]

\* C14: for every configuration both scripts build the layout with Point
\* on side 1, Reroll on side 6 and Blank on sides 2..5, except that an
\* advantage (negative) die has Plus (Minus) on the first n of the sides
\* 2..5, n being the count put into 1..4 (1 for a missing or non-numeric
\* count); a kind that is neither has the normal layout.
C14_Layout ==
    (fnOut # <<>> /\ fnOut[1].op = "buildDieFaces") =>
        LET kind == fnIn.config.kind
            count == IF kind = "adv" THEN fnIn.config.plusCount ELSE fnIn.config.minusCount
            n == IF count.t = "number" THEN Max(1, Min(4, count.n)) ELSE 1
            sym == IF kind = "adv" THEN "+" ELSE "-"
        IN  \A faces \in {fnOut[1].rt, fnOut[1].cd} :
                /\ Len(faces) = 6
                /\ faces[1] = "1"
                /\ faces[6] = "R"
                /\ \A k \in 2..5 :
                      faces[k] = IF kind \in {"adv", "neg"} /\ k <= 1 + n THEN sym ELSE ""

\* a negative die with a count above 4 has Minus on the sides 2..5, one with
\* a count below 1 on side 2 only
C14_CountClamped ==
    /\ fnOut # <<>>
    /\ fnOut[1].op = "buildDieFaces"
    /\ fnIn.config.kind = "neg"
    /\ \/ /\ fnIn.config.minusCount = Num(MaxNumber)
          /\ fnOut[1].rt = <<"1", "-", "-", "-", "-", "R">>
       \/ /\ fnIn.config.minusCount = Num(0 - MaxNumber)
          /\ fnOut[1].rt = <<"1", "-", "", "", "", "R">>
    /\ fnOut[1].cd = fnOut[1].rt

\* C15: for every configuration and every value, faceForRoll returns one of
\* the five faces, the one the layout has on side clamp(value, 1, 6): Point
\* for a value of 1 or less and for a value that is no number, Reroll for a
\* value of 6 or more.
C15_FaceForRoll ==
    (fnOut # <<>> /\ fnOut[1].op = "faceForRoll") =>
        LET v == fnIn.value
            side == IF v.t = "number" THEN Max(1, Min(6, v.n)) ELSE 1
        IN  /\ fnOut[1].rt = buildDieFaces(fnIn.config)[side]
            /\ fnOut[1].cd = buildDieFacesCD(fnIn.config)[side]
            /\ \A face \in {fnOut[1].rt, fnOut[1].cd} :
                  /\ face \in FaceLabels
                  /\ (v.t # "number" \/ v.n <= 1) => face = "1"
                  /\ (v.t = "number" /\ v.n >= 6) => face = "R"

\* a value that is no number gave Point, on a die whose side 2 is Plus
C15_NotANumberIsPoint ==
    /\ fnOut # <<>>
    /\ fnOut[1].op = "faceForRoll"
    /\ fnIn.value = NotNum
    /\ fnIn.config.kind = "adv"
    /\ fnOut[1].rt = "1"
    /\ fnOut[1].cd = "1"

\* C16: when the while loop of the automatic driver ends with dice still
\* pending, it has run 100 rounds; the pending dice are not rolled, nothing
\* is rolled any more, and the score is the score of the faces of the 100
\* rounds, every one of them counted.
C16_CapReached ==
    /\ []((aPc \in {"awaitChat", "done"} /\ Len(pending) > 0) =>
            /\ safety = SafetyCap
            /\ Len(roundLens) = SafetyCap
            /\ Len(allResults) = SumTo(roundLens, SafetyCap)
            /\ Len(tape) = Len(allResults)
            /\ pending = RerollsOf(AutoRound(SafetyCap))
            /\ Len(scoring) = 1
            /\ scoring[1].basePoints = CountIn(allFaces, {"1", "R"})
            /\ scoring[1].rerollCount = CountOf(allFaces, "R")
            /\ scoring[1].plusCount = CountOf(allFaces, "+")
            /\ scoring[1].minusCount = CountOf(allFaces, "-")
            /\ scoring[1].total = Max(0, scoring[1].basePoints + scoring[1].plusCount
                                             - scoring[1].minusCount))
    /\ [][(aPc \in {"awaitChat", "done"}) =>
            (UNCHANGED <<tape, allResults, pending, scoring, safety>> /\ aPc' = "done")]_vars

\* two dice showed Reroll in each of the 100 rounds and the call returned
C16_PendingDropped ==
    /\ aPc = "done"
    /\ Len(pending) = 2
    /\ Len(allResults) = 2 * SafetyCap
    /\ scoring[1].rerollCount = 2 * SafetyCap
    /\ scoring[1].total = 2 * SafetyCap

\* the random values that came before round r of the interactive driver
RolledBefore(r) == Len(Flat(SubSeq(rounds, 1, r - 1)))

\* C17: a round of the interactive driver asks the random source once per
\* die, one die after the other in the order of its input: result i of the
\* round holds die i of the input, the i-th value the source returned to
\* the round and the face of that die for that value, and the round ends
\* with as many results as dice.  Dice So Nice, when installed, is shown
\* every roll and changes nothing of this.
C17_OneRollPerDie ==
    /\ \A r \in 1..Len(rounds) :
          /\ Len(rounds[r]) = Len(InterDiceOfRound(r))
          /\ \A i \in 1..Len(rounds[r]) :
                /\ rounds[r][i].config = InterDiceOfRound(r)[i]
                /\ rounds[r][i].roll = tape[RolledBefore(r) + i]
                /\ rounds[r][i].face = faceForRoll(rounds[r][i].config, Num(rounds[r][i].roll))
    /\ \A f \in 1..Len(frames) :
          /\ Len(frames[f].thisRound) < Len(frames[f].dice)
          /\ Len(tape) = Len(Flat(rounds)) + Len(frames[f].thisRound)
          /\ \A i \in 1..Len(frames[f].thisRound) :
                LET result == frames[f].thisRound[i]
                IN  /\ result.config = frames[f].dice[i]
                    /\ result.roll = tape[Len(Flat(rounds)) + i]
                    /\ result.face = faceForRoll(result.config, Num(result.roll))
    /\ frames = <<>> => Len(tape) = Len(Flat(rounds))
    /\ shown = IF dice3d THEN Len(tape) ELSE 0

\* a round of two different dice, rolled 2 then 1, each roll shown
C17_TwoDiceInOrder ==
    /\ dice3d
    /\ shown = 2
    /\ Len(rounds) = 1
    /\ Len(rounds[1]) = 2
    /\ rounds[1][1].config.kind = "adv"
    /\ rounds[1][2].config.kind = "normal"
    /\ tape = <<2, 1>>
    /\ rounds[1][1].face = "+"
    /\ rounds[1][2].face = "1"

\* the dice buildDiceFromTray composes from a total and the special dice
\* of the text
Composed(total, specials) ==
    IF total > 0 THEN [k \in 1..(total - Len(specials)) |-> Normal] \o specials
    ELSE IF Len(specials) = 0 THEN [k \in 1..5 |-> Normal]
    ELSE specials

\* C19 as stated: with a total above 0 and no more special dice than the
\* total, buildDiceFromTray returns total dice, the normal ones first and
\* the special ones after them in the order of their tokens; with more
\* special dice than the total it rejects; without a total it returns the
\* special dice, or 5 normal dice when there is none.
C19_ComposedAsStated ==
    fnOut # <<>> =>
        LET total == fnIn.total
            specials == parseSpecialTokens(fnIn.specialText).specials
        IN  IF total > 0 /\ Len(specials) > total THEN fnOut[1].rejected
            ELSE /\ ~fnOut[1].rejected
                 /\ fnOut[1].dice = Composed(total, specials)
                 /\ total > 0 => Len(fnOut[1].dice) = total

\* C19, amended: the same, for a list of at most 50 dice; a list of more
\* than 50 dice is rejected.
C19_ComposedUpToCap ==
    fnOut # <<>> =>
        LET total == fnIn.total
            specials == parseSpecialTokens(fnIn.specialText).specials
        IN  IF total > 0 /\ Len(specials) > total THEN fnOut[1].rejected
            ELSE IF Len(Composed(total, specials)) > DiceCap THEN fnOut[1].rejected
            ELSE /\ ~fnOut[1].rejected
                 /\ fnOut[1].dice = Composed(total, specials)
                 /\ total > 0 => Len(fnOut[1].dice) = total

\* a total of 4 with the text "n2 a1": two normal dice, then the negative
\* and the advantage die
C19_NormalsThenSpecials ==
    /\ fnOut # <<>>
    /\ fnIn.total = 4
    /\ ~fnOut[1].rejected
    /\ fnOut[1].dice = <<Normal, Normal, Neg(Num(2)), Adv(Num(1))>>

\* C20: a list buildDiceFromTray accepts has 1 to 50 dice; its special dice
\* are the tokens of the form a<digits> or n<digits>, in their order, each
\* with its number put into 1..4 (4 for a number above 4, 1 for a number
\* below 1); any other token adds no die.
C20_AcceptedDice ==
    (fnOut # <<>> /\ ~fnOut[1].rejected) =>
        LET dice == fnOut[1].dice
            IsSpecialDie(die) == die.kind # "normal"
            IsSpecial(tok) == IsSpecialToken(tok, "a", "A") \/ IsSpecialToken(tok, "n", "N")
            specialDice == SelectSeq(dice, IsSpecialDie)
            specialTokens == SelectSeq(SplitTokens(fnIn.specialText), IsSpecial)
        IN  /\ Len(dice) \in 1..DiceCap
            /\ \A k \in 1..Len(dice) :
                  /\ dice[k].kind = "adv" => dice[k].plusCount \in {Num(c) : c \in 1..4}
                  /\ dice[k].kind = "neg" => dice[k].minusCount \in {Num(c) : c \in 1..4}
            /\ Len(specialDice) = Len(specialTokens)
            /\ \A k \in 1..Len(specialDice) :
                  LET typed == ParseInt(Tail(specialTokens[k]))
                      count == Num(Max(1, Min(4, typed)))
                  IN  specialDice[k] = IF specialTokens[k][1] \in {"a", "A"}
                                       THEN Adv(count) ELSE Neg(count)

\* the text "A7 x3 a0": an advantage die of 4, nothing for x3, an advantage
\* die of 1, and three warnings
C20_ClampedAndIgnored ==
    /\ fnOut # <<>>
    /\ ~fnOut[1].rejected
    /\ fnIn.total = 0
    /\ fnOut[1].dice = <<Adv(Num(4)), Adv(Num(1))>>
    /\ Len(notes) = 3
    /\ notes[2].warn = "unknown token"

\* C13: after the tray or the chat command has rejected its input (more
\* special dice than the total, no dice, more than 50 dice), rollPool has
\* not been called: the random source was not consulted, no die was
\* rolled, no round exists, no score was computed and no message was sent;
\* after an accepted input rollPool has been called.
C13_RejectedBeforeRolling ==
    fnOut # <<>> =>
        IF fnOut[1].rejected
        THEN /\ notes[Len(notes)].warn \in {"more specials than total", "no dice",
                                              "too many dice"}
             /\ tape = <<>>
             /\ aPc = "idle" /\ allResults = <<>> /\ roundLens = <<>> /\ scoring = <<>>
             /\ iReturn = "idle" /\ rounds = <<>> /\ frames = <<>> /\ dialogs = <<>>
             /\ finals = <<>> /\ started = 0
        ELSE aPc # "idle" \/ iReturn # "idle"

\* the command "/rr 1 a1 n10" was rejected: two special dice for a total
\* of 1
C13_ChatCommandRejected ==
    /\ fnOut # <<>>
    /\ fnIn.handler = "chat"
    /\ fnIn.total = 1
    /\ fnOut[1].rejected
    /\ notes[Len(notes)].warn = "more specials than total"

\* the kinds of dice the call of pool p was given
OwnKinds(p) == IF p = 1 THEN {"normal", "adv"} ELSE {"neg"}

\* the Reroll button callbacks run so far
RerollClicks == Len(SelectSeq(decisions, LAMBDA d : d = "reroll"))

\* C18: with two pools resolved in any interleaving, what the pool that
\* runs has, whenever it runs, is what its own call makes of its own dice,
\* the random values its own rolls returned and its own decisions: its
\* results are its own dice in order with those values and their faces,
\* its rounds are one more than the rerolls it was told to make, its score
\* is the score of these results and of its own bonuses, and no die of the
\* other pool's kinds is among them.
C18_PoolsIndependent ==
    /\ pool # parked.pool
    /\ ref # 0 => ref # parked.ref
    /\ args \in PoolArgs(pool) \cup {NoArgs}
    \* the interactive driver
    /\ \A r \in 1..Len(rounds) :
          /\ Len(rounds[r]) = Len(InterDiceOfRound(r))
          /\ \A i \in 1..Len(rounds[r]) :
                /\ rounds[r][i].config = InterDiceOfRound(r)[i]
                /\ rounds[r][i].config.kind \in OwnKinds(pool)
                /\ rounds[r][i].roll = tape[RolledBefore(r) + i]
                /\ rounds[r][i].face = faceForRoll(rounds[r][i].config, Num(rounds[r][i].roll))
    /\ \A f \in 1..Len(frames) :
          /\ frames[f].dice = InterDiceOfRound(Len(rounds) + 1)
          /\ Len(tape) = Len(Flat(rounds)) + Len(frames[f].thisRound)
          /\ \A i \in 1..Len(frames[f].thisRound) :
                LET result == frames[f].thisRound[i]
                IN  /\ result.config = frames[f].dice[i]
                    /\ result.roll = tape[Len(Flat(rounds)) + i]
                    /\ result.face = faceForRoll(result.config, Num(result.roll))
    /\ (variant = "interactive" /\ frames = <<>>) => Len(tape) = Len(Flat(rounds))
    /\ iReturn # "idle" => Len(rounds) + Len(frames) = 1 + RerollClicks
    /\ \A i \in 1..Len(finals) :
          finals[i] = FinalizeAndSend(rounds, args.bonusSuccess, args.bonusPenalty)
    \* the automatic driver
    /\ variant = "auto" => Len(allResults) = Len(tape)
    /\ \A k \in 1..Len(allResults) :
          /\ allResults[k].config.kind \in OwnKinds(pool)
          /\ allResults[k].roll = tape[k]
          /\ allResults[k].face = faceForRollCD(allResults[k].config, Num(tape[k]))
    /\ \A k \in 1..Len(roundLens) :
          /\ roundLens[k] = Len(AutoDiceOfRound(k))
          /\ IsPrefix(ConfigsOf(AutoRound(k)), AutoDiceOfRound(k))
          /\ k < Len(roundLens) => Len(AutoRound(k)) = roundLens[k]
    /\ scoring # <<>> => scoring[1] = scoreFaces(allFaces)

\* the first pool is in the middle of its second round, one of its two
\* dice rolled, while the second pool, one round rolled, waits at its
\* Dialog
C18_BothInFlight ==
    /\ pool = 1
    /\ Len(rounds) = 1
    /\ Len(frames) = 1
    /\ Len(frames[1].dice) = 2
    /\ Len(frames[1].thisRound) = 1
    /\ Len(parked.dialogs) = 1
    /\ Len(Contents(heap, parked.ref)) = 1
    /\ Contents(heap, parked.ref)[1][1].config.kind = "neg"

\* the rounds of the automatic driver that are rolled to the end
AutoRoundsDone == IF aPc = "awaitRoll" THEN Len(roundLens) - 1 ELSE Len(roundLens)

\* the Reroll faces among the first n results of the automatic driver
AutoRerollsIn(n) == CountOf(FacesOf(SubSeq(allResults, 1, n)), "R")

\* C21: under either driver and at every point of a resolution, the dice
\* rolled in the rounds rolled so far are as many as the dice the pool
\* started with plus the Reroll faces of all these rounds but the last;
\* a pool that is scored with no Reroll face in its last round has rolled
\* as many dice as it started with plus its rerollCount.
C21_DiceConserved ==
    LET initial == Len(DiceOrDefault(args.dice))
    IN  /\ Len(rounds) > 0 =>
              Len(Flat(rounds)) =
                  initial + CountOf(FacesOf(Flat(SubSeq(rounds, 1, Len(rounds) - 1))), "R")
        /\ \A i \in 1..Len(finals) :
              CountOf(FacesOf(LastOf(rounds)), "R") = 0 =>
                  Len(Flat(rounds)) = initial + finals[i].rerollCount
        /\ AutoRoundsDone > 0 =>
              SumTo(roundLens, AutoRoundsDone) =
                  initial + AutoRerollsIn(SumTo(roundLens, AutoRoundsDone - 1))
        /\ aPc \in {"awaitChat", "done"} =>
              /\ Len(allResults) = SumTo(roundLens, Len(roundLens))
              /\ CountOf(FacesOf(AutoRound(Len(roundLens))), "R") = 0 =>
                    Len(allResults) = initial + scoring[1].rerollCount

\* a pool of two dice scored after three rounds of 2, 2 and 1 dice
C21_FiveDiceFromTwo ==
    /\ finals # <<>>
    /\ Len(rounds) = 3
    /\ Len(rounds[1]) = 2
    /\ Len(rounds[2]) = 2
    /\ Len(rounds[3]) = 1
    /\ finals[1].rerollCount = 3

\* the rounds of the interactive driver that show a Reroll face
RoundsWithReroll == {r \in 1..Len(rounds) : CountOf(FacesOf(rounds[r]), "R") > 0}

\* C22: in the interactive driver the step that ends a round without a
\* Reroll face scores the pool in that same step, renders no Dialog and
\* runs no button callback, and the first call then returns the result;
\* the step that ends a round with a Reroll face renders one Dialog and
\* scores nothing.  So the Dialogs rendered are as many as the rounds with
\* a Reroll face, and an open Dialog is about the Reroll dice of the last
\* round.
C22_NoRerollFinalizes ==
    /\ [](/\ prompts = Cardinality(RoundsWithReroll)
          /\ \A d \in 1..Len(dialogs) :
                /\ Len(rounds) \in RoundsWithReroll
                /\ dialogs[d].rerollConfigs = RerollsOf(LastOf(rounds))
          /\ (Len(rounds) = 1 /\ RoundsWithReroll = {}) =>
                (iReturn = "result" /\ Len(finals) = 1 /\ decisions = <<>>))
    /\ [][(Len(rounds') = Len(rounds) + 1) =>
            (IF Len(rounds') \in RoundsWithReroll'
             THEN (prompts' = prompts + 1 /\ Len(dialogs') = Len(dialogs) + 1
                   /\ finals' = finals /\ decisions' = decisions)
             ELSE (Len(finals') = Len(finals) + 1 /\ prompts' = prompts
                   /\ dialogs' = dialogs /\ decisions' = decisions))]_vars

\* the second round shows no Reroll face: scored after one prompt and one
\* click, with no Dialog open
C22_SecondRoundEndsIt ==
    /\ Len(rounds) = 2
    /\ RoundsWithReroll = {1}
    /\ Len(finals) = 1
    /\ prompts = 1
    /\ decisions = <<"reroll">>
    /\ dialogs = <<>>

\* C23: the interactive driver has no cap on its rounds.  Whatever the
\* number of rounds rolled, the callback of the Reroll button starts
\* another round and scores nothing, and a pool is scored only when its
\* last round shows no Reroll face or the last button clicked is Finish;
\* a pool of more than 100 rounds is reached.
C23_NoRoundCap ==
    /\ [](/\ Len(finals) <= 1
          /\ finals # <<>> =>
                \/ CountOf(FacesOf(LastOf(rounds)), "R") = 0
                \/ (decisions # <<>> /\ LastOf(decisions) = "finish"))
    /\ [][(decisions' = Append(decisions, "reroll")) =>
            (started' = started + 1 /\ Len(frames') = Len(frames) + 1
             /\ finals' = finals /\ rounds' = rounds)]_vars

\* a pool with one round more than the cap of the automatic driver, at its
\* next prompt and not scored
C23_PastTheCap ==
    /\ Len(rounds) = SafetyCap + 1
    /\ Len(dialogs) = 1
    /\ finals = <<>>
    /\ Len(decisions) = SafetyCap

FiveNormalDice == <<Normal, Normal, Normal, Normal, Normal>>

\* C24: a call of either rollRolenrollPool without a dice list, with
\* something that is not a list or with an empty list rolls 5 normal dice
\* in its first round: the round is entered with these 5 dice, its results
\* are theirs in order, and it ends with 5 results.
C24_FiveNormalDice ==
    /\ aPc # "idle" =>
          /\ roundLens # <<>>
          /\ roundLens[1] = 5
          /\ IsPrefix(ConfigsOf(AutoRound(1)), FiveNormalDice)
          /\ (Len(roundLens) > 1 \/ aPc # "awaitRoll") =>
                ConfigsOf(AutoRound(1)) = FiveNormalDice
    /\ iReturn # "idle" =>
          IF rounds = <<>>
          THEN /\ Len(frames) = 1
               /\ frames[1].dice = FiveNormalDice
               /\ IsPrefix(ConfigsOf(frames[1].thisRound), FiveNormalDice)
          ELSE ConfigsOf(rounds[1]) = FiveNormalDice

\* the interactive driver called with something that is not a list and
\* scored after a first round of 5 normal dice
C24_NotAListRollsFive ==
    /\ ~args.dice.isArray
    /\ iReturn = "result"
    /\ Len(rounds) = 1
    /\ ConfigsOf(rounds[1]) = FiveNormalDice
    /\ Len(tape) = 5
    /\ Len(finals) = 1

====
